---------------------------- MODULE Spec2Model ----------------------------
(***************************************************************************)
(* soundvis: the AudioProcessor (utils/audioUtils) and the SoundVisualizer *)
(* component that drives it.  The Web Audio platform (context, analysers,  *)
(* source nodes, tracks, oscillators) is modelled as far as the processor  *)
(* and the component observe or change it.                                 *)
(***************************************************************************)
EXTENDS Integers, Naturals, Sequences, FiniteSets, TLC

(***************************************************************************)
(* Exact integer arithmetic for Math.log / Math.exp / Math.round           *)
(***************************************************************************)
\* little-endian digit sequences in this base hold the large powers
BigBase == 10000

RECURSIVE BigNorm(_)
BigNorm(a) ==
  IF Len(a) > 1 /\ a[Len(a)] = 0 THEN BigNorm(SubSeq(a, 1, Len(a) - 1)) ELSE a

RECURSIVE BigMulCarry(_, _, _, _)
BigMulCarry(a, n, i, carry) ==
  IF i > Len(a)
    THEN IF carry = 0 THEN <<>> ELSE BigMulCarry(<<carry>>, 1, 1, 0)
    ELSE LET v == a[i] * n + carry
         IN  <<v % BigBase>> \o BigMulCarry(a, n, i + 1, v \div BigBase)

BigMul(a, n) == BigNorm(BigMulCarry(a, n, 1, 0))

RECURSIVE BigTimesPow(_, _, _)
\* a * n^e
BigTimesPow(a, n, e) == IF e = 0 THEN a ELSE BigTimesPow(BigMul(a, n), n, e - 1)

RECURSIVE BigLeqFrom(_, _, _)
BigLeqFrom(a, b, i) ==
  IF i = 0 THEN TRUE
  ELSE IF a[i] # b[i] THEN a[i] < b[i]
  ELSE BigLeqFrom(a, b, i - 1)

BigLeq(a, b) ==
  IF Len(a) # Len(b) THEN Len(a) < Len(b) ELSE BigLeqFrom(a, b, Len(a))

RECURSIVE FloorRootIn(_, _, _, _)
\* the largest m in lo..hi with m^k <= x (x a digit sequence, lo^k <= x)
FloorRootIn(x, k, lo, hi) ==
  IF lo = hi THEN lo
  ELSE LET mid == (lo + hi + 1) \div 2
       IN  IF BigLeq(BigTimesPow(<<1>>, mid, k), x)
             THEN FloorRootIn(x, k, mid, hi)
             ELSE FloorRootIn(x, k, lo, mid - 1)

\* the boundaries with delta = (logEnd - logStart) / n
RoundExpLog_short(start, end, n, i) ==
  LET x    == BigTimesPow(BigTimesPow(BigTimesPow(<<1>>, 2, n), start, n - i), end, i)
      twox == FloorRootIn(x, n, 0, 2 * end + 1)
  IN  (twox + 1) \div 2

\* Math.round(Math.exp(logStart + delta * i)) with logStart = Math.log(start),
\* delta = (Math.log(end) - logStart) / (n - 1):
\* the value is (start^(n-1-i) * end^i)^(1/(n-1)) and round(x) = floor((floor(2x)+1)/2)
RoundExpLog(start, end, n, i) ==
  LET k    == n - 1
      x    == BigTimesPow(BigTimesPow(BigTimesPow(<<1>>, 2, k), start, k - i), end, i)
      twox == FloorRootIn(x, k, 0, 2 * end + 1)
  IN  (twox + 1) \div 2

\* const logSpace = (start, end, n) => [...]; 0-indexed like the array it returns
logSpace(start, end, n) == [i \in 0..(n - 1) |-> RoundExpLog(start, end, n, i)]


(***************************************************************************)
(* Typed arrays and the array helpers the code uses                        *)
(***************************************************************************)
\* arrays are functions on 0..length-1; the empty function stands for null
Null == <<>>
Length(a) == Cardinality(DOMAIN a)

Min2(a, b) == IF a < b THEN a ELSE b
Max2(a, b) == IF a > b THEN a ELSE b

\* Array.prototype.slice(from, to) for non-negative arguments
slice(a, from, to) ==
  LET f == Min2(from, Length(a))
      t == Min2(to, Length(a))
      n == Max2(t - f, 0)
  IN  [i \in 0..(n - 1) |-> a[f + i]]

RECURSIVE SumRange(_, _, _)
\* a[lo] + ... + a[hi-1]
SumRange(a, lo, hi) ==
  IF hi <= lo THEN 0
  ELSE IF hi = lo + 1 THEN a[lo]
  ELSE LET mid == (lo + hi) \div 2
       IN  SumRange(a, lo, mid) + SumRange(a, mid, hi)

\* a.reduce((acc, val) => acc + val, 0)
reduceSum(a) == SumRange(a, 0, Length(a))

\* Math.max(...a) for a non-empty array
MathMax(a) ==
  LET vals == {a[i] : i \in DOMAIN a}
  IN  CHOOSE v \in vals : \A w \in vals : w <= v

\* Array(n).fill(v)
ArrayFill(n, v) == [i \in 0..(n - 1) |-> v]

(***************************************************************************)
(* AudioProcessor: analyser configuration and the band extraction          *)
(***************************************************************************)
fftSize == 2048
\* AnalyserNode.frequencyBinCount is half the FFT size
frequencyBinCount == fftSize \div 2

startBin == 1
endBinLimit == 800
totalBands == 8

\* const endBin = Math.min(800, this.dataArray.length)
endBin(data) == Min2(endBinLimit, Length(data))

\* every dataArray is allocated with frequencyBinCount entries, so the
\* boundaries are the same table on every call
bandBoundaries == logSpace(startBin, Min2(endBinLimit, frequencyBinCount), totalBands + 1)

\* a signal test with a small threshold, as the component's own `val > 1`
hasSignal_threshold(sum) == sum > 1

\* const hasSignal = sum > 0
hasSignal(sum) == sum > 0

\* a band that accumulates its bins, and one that averages them
bandValue_sum(bandData) == IF Length(bandData) > 0 THEN reduceSum(bandData) ELSE 0
bandValue_mean(bandData) ==
  IF Length(bandData) > 0 THEN reduceSum(bandData) \div Length(bandData) ELSE 0

\* the value of one band: the peak of its slice, 0 for an empty slice
bandValue(bandData) == IF Length(bandData) > 0 THEN MathMax(bandData) ELSE 0

\* the body of getFrequencyBands once the analyser has filled dataArray
bandsOf(data) ==
  LET sum         == reduceSum(data)
      usefulRange == slice(data, startBin, endBin(data))
      boundaries  == IF Length(data) = frequencyBinCount
                       THEN bandBoundaries
                       ELSE logSpace(startBin, endBin(data), totalBands + 1)
  IN  IF hasSignal(sum)
        THEN [i \in 0..(totalBands - 1) |->
                bandValue(slice(usefulRange, boundaries[i] - startBin,
                                             boundaries[i + 1] - startBin))]
        ELSE ArrayFill(totalBands, 0)

(***************************************************************************)
(* getRawVolume: RMS of the time-domain bytes                              *)
(***************************************************************************)
\* numbers that are floats in the code are kept in thousandths, rounded down
Milli == 1000

RECURSIVE SumSquares(_, _, _)
\* sum of (128 * amplitude)^2 = (byte - 128)^2 over td[lo..hi-1]
SumSquares(td, lo, hi) ==
  IF hi <= lo THEN 0
  ELSE IF hi = lo + 1 THEN (td[lo] - 128) * (td[lo] - 128)
  ELSE LET mid == (lo + hi) \div 2
       IN  SumSquares(td, lo, mid) + SumSquares(td, mid, hi)

RECURSIVE FloorSqrtRatio(_, _, _, _)
\* the largest m in lo..hi with m * m * den <= num (digit sequences)
FloorSqrtRatio(num, den, lo, hi) ==
  IF lo = hi THEN lo
  ELSE LET mid == (lo + hi + 1) \div 2
       IN  IF BigLeq(BigMul(BigMul(den, mid), mid), num)
             THEN FloorSqrtRatio(num, den, mid, hi)
             ELSE FloorSqrtRatio(num, den, lo, mid - 1)

\* the peak byte over 128 instead of the RMS of the centred amplitudes
rmsOf_peak(td) == (MathMax(td) * Milli) \div 128

\* Math.sqrt(sumOfSquares / timeDomainData.length) with amplitude = byte/128 - 1
rmsOf(td) ==
  LET sq  == SumSquares(td, 0, Length(td))
      num == BigMul(BigMul(BigMul(<<1>>, sq), Milli), Milli)
      den == BigMul(BigMul(BigMul(<<1>>, Length(td)), 128), 128)
  IN  FloorSqrtRatio(num, den, 0, 2 * Milli)


(***************************************************************************)
(* Fixed-point arithmetic of the scene: Math.sqrt, Math.sin, Math.cos      *)
(***************************************************************************)
RECURSIVE FloorSqrtIn(_, _, _)
\* the largest m in lo..hi with m * m <= n
FloorSqrtIn(n, lo, hi) ==
  IF lo = hi THEN lo
  ELSE LET mid == (lo + hi + 1) \div 2
       IN  IF mid * mid <= n THEN FloorSqrtIn(n, mid, hi)
                             ELSE FloorSqrtIn(n, lo, mid - 1)

\* Math.sqrt of a non-negative integer, rounded down
MathSqrt(n) == FloorSqrtIn(n, 0, 46340)

\* pi in thousandths of a radian
Pi == 3142

\* sin of an angle a in 0..Pi/2 (thousandths of a radian), in thousandths:
\* a - a^3/6 + a^5/120 - a^7/5040
SinQuarter(a) ==
  LET a2 == (a * a) \div Milli
      a3 == (a2 * a) \div Milli
      a5 == (a3 * a2) \div Milli
      a7 == (a5 * a2) \div Milli
  IN  Min2(Milli, a - a3 \div 6 + a5 \div 120 - a7 \div 5040)

\* Math.sin of an angle in thousandths of a radian, in thousandths
MathSin(a) ==
  LET r == a % (2 * Pi)
      h == IF r >= Pi THEN r - Pi ELSE r
      q == IF h > Pi \div 2 THEN Pi - h ELSE h
  IN  IF r >= Pi THEN 0 - SinQuarter(q) ELSE SinQuarter(q)

\* Math.cos of an angle in thousandths of a radian, in thousandths
MathCos(a) == MathSin(a + Pi \div 2)

\* THREE.Vector3.length() of a vector in thousandths
Norm(v) == MathSqrt(v[1] * v[1] + v[2] * v[2] + v[3] * v[3])

\* THREE.Vector3.normalize(): divideScalar(length() || 1); unit = 1000
Normalize(v) ==
  LET len == Norm(v)
  IN  IF len = 0 THEN <<0, 0, 0>>
      ELSE <<(v[1] * Milli) \div len, (v[2] * Milli) \div len, (v[3] * Milli) \div len>>

(***************************************************************************)
(* CloudParticles and EnergyDisturbance: the per-frame mapping             *)
(***************************************************************************)
\* Intensities are kept exactly, as multiples of 1 / IntensityUnit, with the
\* sensitivity in tenths (the slider's step): IntensityUnit = 10 * 255 * 24
IntensityUnit == 61200

\* an intensity in thousandths
toMilli(x) == (x * 10) \div 612

\* a low group intensity that is clamped to 1
lowFreqIntensity_clamped(audioData, sensitivity) ==
  Min2(IntensityUnit, sensitivity * SumRange(audioData, 0, 2) * 12)

\* sensitivity * audioData.slice(0, 2).reduce(sum) / (2 * 255)
lowFreqIntensity(audioData, sensitivity) ==
  sensitivity * SumRange(audioData, 0, 2) * 12

\* sensitivity * audioData.slice(2, 5).reduce(sum) / (3 * 255)
midFreqIntensity(audioData, sensitivity) ==
  sensitivity * SumRange(audioData, 2, 5) * 8

\* the high group divided by 2 * 255 like the low group
highFreqIntensity_halved(audioData, sensitivity) ==
  sensitivity * SumRange(audioData, 5, Length(audioData)) * 12

\* sensitivity * audioData.slice(5).reduce(sum) / (3 * 255)
highFreqIntensity(audioData, sensitivity) ==
  sensitivity * SumRange(audioData, 5, Length(audioData)) * 8

\* sensitivity * audioData.reduce(sum) / audioData.length / 255
avgIntensity(audioData, sensitivity) ==
  (sensitivity * reduceSum(audioData) * 24) \div Length(audioData)

\* sensitivity * audioData[bandIndex] / 255
audioIntensity(audioData, sensitivity, bandIndex) ==
  sensitivity * audioData[bandIndex] * 24

\* (lowFreqIntensity - highFreqIntensity) * 0.3, in tenths of 1 / IntensityUnit
verticalBias(audioData, sensitivity) ==
  (lowFreqIntensity(audioData, sensitivity)
     - highFreqIntensity(audioData, sensitivity)) * 3

\* (highFreqIntensity - lowFreqIntensity) * 0.3, in tenths of 1 / IntensityUnit
radialBias(audioData, sensitivity) ==
  (highFreqIntensity(audioData, sensitivity)
     - lowFreqIntensity(audioData, sensitivity)) * 3

\* a bias in thousandths
biasMilli(b) == b \div 612

\* 0.05 + midFreqIntensity * 0.2, in thousandths
circularMotionSpeed(audioData, sensitivity) ==
  50 + (toMilli(midFreqIntensity(audioData, sensitivity)) * 200) \div Milli

\* midFreqIntensity > 0.5 ? 1 : -1
circularMotionDirection(audioData, sensitivity) ==
  IF midFreqIntensity(audioData, sensitivity) * 2 > IntensityUnit THEN 1 ELSE -1

\* Math.sin(time * 0.15) * 0.05 and 0.1 + breathingEffect (CloudParticles)
baseMovementFactor(time) == 100 + (MathSin((time * 150) \div Milli) * 50) \div Milli

\* Math.min(Math.floor((distance / 20) * audioData.length), audioData.length - 1)
bandIndex(audioData, distance) ==
  Min2((distance * Length(audioData)) \div 20000, Length(audioData) - 1)

\* Math.sin(time * 0.2 + i * 0.005 + x * 0.05 + y * 0.05) * 0.02
noise(time, i, x, y) ==
  (MathSin((time * 200) \div Milli + i * 5 + (x * 50) \div Milli + (y * 50) \div Milli)
     * 20) \div Milli

\* Math.pow(audioIntensity, 3) * 0.8, from the intensity in thousandths
audioFactor(a) == (((((a * a) \div Milli) * a) \div Milli) * 8) \div 10

\* a vector scaled by f / d
Scaled(v, f, d) == <<(v[1] * f) \div d, (v[2] * f) \div d, (v[3] * f) \div d>>

\* the biased direction of a point (lines 101-113)
direction(position, audioData, sensitivity) ==
  LET d  == Normalize(position)
      vb == biasMilli(verticalBias(audioData, sensitivity))
      rb == biasMilli(radialBias(audioData, sensitivity))
      b  == <<d[1], d[2] + vb, d[3]>>
  IN  IF radialBias(audioData, sensitivity) > 0
        THEN Scaled(b, Milli + (rb * 200) \div Milli, Milli)
        ELSE Scaled(b, (Milli * Milli) \div (Milli - (rb * 200) \div Milli), Milli)

\* the swirl is applied to a point: audioIntensity > 0.1 and xzDistance > 0.1
swirls(position, a) ==
  /\ a * 10 > IntensityUnit
  /\ MathSqrt(position[1] * position[1] + position[3] * position[3]) > 100

\* the circular motion in the XZ plane added to a point (lines 122-133)
swirl(position, audioData, sensitivity, movement) ==
  LET xzDistance    == MathSqrt(position[1] * position[1] + position[3] * position[3])
      normalizedX   == (position[1] * Milli) \div xzDistance
      normalizedZ   == (position[3] * Milli) \div xzDistance
      circularForce == circularMotionSpeed(audioData, sensitivity)
                         * circularMotionDirection(audioData, sensitivity)
  IN  <<((((0 - normalizedZ) * circularForce) \div Milli) * movement) \div Milli,
        0,
        (((normalizedX * circularForce) \div Milli) * movement) \div Milli>>

\* angles of the rotation about Y are kept in hundred-thousandths of a radian
Fine == 100000

\* 0.0005 + audioIntensity^2 * 0.01, from the intensity in thousandths
rotationSpeed(a) == 50 + (a * a) \div Milli

\* the rotation of a point about the Y axis by a small angle r (lines 138-142)
rotated(p, r) ==
  LET r2   == (r * r) \div Fine
      sinR == r - ((r2 * r) \div Fine) \div 6
      verR == r2 \div 2 - ((r2 * r2) \div Fine) \div 24
      nx   == p[1] - (p[1] * verR) \div Fine - (p[3] * sinR) \div Fine
      nz   == (p[1] * sinR) \div Fine + p[3] - (p[3] * verR) \div Fine
  IN  <<nx, p[2], nz>>

\* a reset that puts the point at radius 5
bounded_half(p) ==
  IF Norm(p) > 20000 THEN Scaled(p, 5000, Norm(p)) ELSE p

\* newDistance > 20: the point is put at radius 10 along its direction
bounded(p) ==
  IF Norm(p) > 20000 THEN Scaled(p, 10000, Norm(p)) ELSE p

\* the position of a point after the displacement, the swirl and the
\* rotation of one frame, before the bounds test (lines 81-142)
moved(point, audioData, sensitivity, time) ==
  LET p        == point.position
      a        == audioIntensity(audioData, sensitivity, bandIndex(audioData, Norm(p)))
      aM       == toMilli(a)
      movement == baseMovementFactor(time) + audioFactor(aM)
                    + noise(time, point.index, p[1], p[2])
      step     == Scaled(Scaled(direction(p, audioData, sensitivity), movement, Milli),
                         50, Milli)
      p1       == <<p[1] + step[1], p[2] + step[2], p[3] + step[3]>>
      sw       == IF swirls(p, a) THEN swirl(p, audioData, sensitivity, movement)
                  ELSE <<0, 0, 0>>
      p2       == <<p1[1] + sw[1], p1[2], p1[3] + sw[3]>>
  IN  rotated(p2, rotationSpeed(aM))

\* the colour of a point (lines 165-167)
pointColor(a) ==
  <<200 + (a * 700) \div Milli, 100 + (a * 200) \div Milli, 500 + (a * 300) \div Milli>>

\* (0.05 + Math.random() * 0.05) * (1 + audioIntensity * 1.5)
pointSize(a, random) ==
  ((50 + (random * 50) \div Milli) * (Milli + (a * 1500) \div Milli)) \div Milli

\* one iteration of the loop of CloudParticles' useFrame (lines 79-171)
cloudPoint(point, audioData, sensitivity, time, random) ==
  LET a == toMilli(audioIntensity(audioData, sensitivity,
                                  bandIndex(audioData, Norm(point.position))))
  IN  [index    |-> point.index,
       position |-> bounded(moved(point, audioData, sensitivity, time)),
       color    |-> pointColor(a),
       size     |-> pointSize(a, random)]

\* (Math.sin(time * 0.1) + 1) * 0.04 (EnergyDisturbance)
breathingEffect(time) == ((MathSin((time * 100) \div Milli) + Milli) * 40) \div Milli

\* 1 + breathingEffect + avgIntensity^2 * 0.8, from the intensity in thousandths
pulseScale(a, time) == Milli + breathingEffect(time) + (((a * a) \div Milli) * 800) \div Milli

\* the smoothed rotation increments, in millionths of a radian (lines 230-244)
lastRotation(last, audioData, sensitivity) ==
  LET low  == lowFreqIntensity(audioData, sensitivity)
      mid  == midFreqIntensity(audioData, sensitivity)
      high == highFreqIntensity(audioData, sensitivity)
      a    == toMilli(avgIntensity(audioData, sensitivity))
      xRotationDir == IF low > high THEN 1 ELSE -1
      yRotationDir == IF mid * 10 > 3 * IntensityUnit THEN 1 ELSE -1
      zRotationDir == IF high > low THEN 1 ELSE -1
      rotationBase == 1000
      rotationAudioFactor == ((a * a) \div Milli) * 50
  IN  <<(last[1] * 95) \div 100
          + (((rotationBase + rotationAudioFactor) * 5) \div 100) * xRotationDir,
        (last[2] * 95) \div 100
          + (((rotationBase + (rotationAudioFactor * 11) \div 10) * 5) \div 100) * yRotationDir,
        (last[3] * 95) \div 100
          + (rotationBase + toMilli(high) * 20) * zRotationDir>>

\* the colour of the material (lines 256-258)
materialColor(a, time) ==
  <<300 + (100 * MathSin((time * 300) \div Milli)) \div Milli + (a * 500) \div Milli,
    100 + (a * 300) \div Milli,
    600 + (100 * MathCos((time * 300) \div Milli)) \div Milli + (a * 400) \div Milli>>

\* Math.round(base + intensity * 4)
knotParameter(base, intensity) ==
  (base * IntensityUnit + intensity * 4 + IntensityUnit \div 2) \div IntensityUnit

\* a gate without the intensity threshold, and one without the time gate
geometryGate_timeOnly(audioData, sensitivity, time) == time % 2000 < 100
geometryGate_thresholdOnly(audioData, sensitivity, time) ==
  avgIntensity(audioData, sensitivity) * 5 > IntensityUnit

\* clock.elapsedTime % 2 < 0.1 && avgIntensity > 0.2
geometryGate(audioData, sensitivity, time) ==
  /\ time % 2000 < 100
  /\ avgIntensity(audioData, sensitivity) * 5 > IntensityUnit

\* new THREE.TorusKnotGeometry(1, 0.3 + avgIntensity * 0.15, 100, 16, p, q);
\* id counts the geometry objects created
torusKnot(id, audioData, sensitivity) ==
  [id   |-> id,
   tube |-> 300 + (toMilli(avgIntensity(audioData, sensitivity)) * 150) \div Milli,
   p    |-> knotParameter(2, lowFreqIntensity(audioData, sensitivity)),
   q    |-> knotParameter(3, highFreqIntensity(audioData, sensitivity))]

\* the callback of EnergyDisturbance's useFrame (lines 199-284)
energyFrame(mesh, audioData, sensitivity, time) ==
  LET a    == toMilli(avgIntensity(audioData, sensitivity))
      last == lastRotation(mesh.lastRotation, audioData, sensitivity)
      c    == materialColor(a, time)
  IN  [scale             |-> pulseScale(a, time),
       lastRotation      |-> last,
       rotation          |-> <<mesh.rotation[1] + last[1], mesh.rotation[2] + last[2],
                               mesh.rotation[3] + last[3]>>,
       emissiveIntensity |-> 200 + breathingEffect(time) + (a * 2500) \div Milli,
       color             |-> c,
       emissive          |-> <<c[1] \div 2, c[2] \div 2, c[3] \div 2>>,
       geometry          |-> IF geometryGate(audioData, sensitivity, time)
                               THEN torusKnot(mesh.geometry.id + 1, audioData, sensitivity)
                               ELSE mesh.geometry]

\* the mesh as the JSX creates it (lines 287-298): torusKnotGeometry
\* args [1, 0.3, 100, 16, 2, 3], color #4a00e0, emissive #220066
InitialMesh ==
  [scale             |-> Milli,
   lastRotation      |-> <<0, 0, 0>>,
   rotation          |-> <<0, 0, 0>>,
   emissiveIntensity |-> 300,
   color             |-> <<(74 * Milli) \div 255, 0, (224 * Milli) \div 255>>,
   emissive          |-> <<(34 * Milli) \div 255, 0, (102 * Milli) \div 255>>,
   geometry          |-> [id |-> 0, tube |-> 300, p |-> 2, q |-> 3]]

\* const particleCount = 5000
particleCount == 5000

(***************************************************************************)
(* Bounds and the data the platform may deliver                            *)
(***************************************************************************)
\* acquisitions per run: every acquisition creates one analyser
MaxAnalysers == 2

ZeroArray == ArrayFill(frequencyBinCount, 0)
Spike(bin, v) == [i \in 0..(frequencyBinCount - 1) |-> IF i = bin THEN v ELSE 0]
Spike2(b1, v1, b2, v2) ==
  [i \in 0..(frequencyBinCount - 1) |-> IF i = b1 THEN v1 ELSE IF i = b2 THEN v2 ELSE 0]

\* bins at and next to every band boundary, the DC bin and the last bin
ProbeBins ==
  {0, frequencyBinCount - 1}
    \cup {bandBoundaries[i] : i \in 0..totalBands}
    \cup {bandBoundaries[i] - 1 : i \in 1..totalBands}
ProbeValues == {1, 2, 255}

\* byte arrays getByteFrequencyData may write when a live source feeds the analyser
FrequencyInputs ==
  {ZeroArray, ArrayFill(frequencyBinCount, 255),
   [i \in 0..(frequencyBinCount - 1) |-> i % 256]}
    \cup {Spike(b, v) : b \in ProbeBins, v \in ProbeValues}
    \cup {Spike2(bandBoundaries[i], 40, bandBoundaries[i + 1] - 1, 200) : i \in 1..(totalBands - 1)}
    \cup {Spike2(0, 9, frequencyBinCount - 1, 7)}

SilentBuffer == ArrayFill(fftSize, 128)
Alternating(lo, hi) == [i \in 0..(fftSize - 1) |-> IF i % 2 = 0 THEN lo ELSE hi]

\* byte buffers getByteTimeDomainData may write
TimeDomainInputs ==
  {SilentBuffer, ArrayFill(fftSize, 0), ArrayFill(fftSize, 255),
   Alternating(0, 255), Alternating(96, 160), Alternating(127, 129)}

\* what the analyser holds at one instant: the spectrum and the waveform
Silence == [freq |-> ZeroArray, time |-> SilentBuffer]
\* the signals the component's poll loop meets: silence, a DC offset, a
\* barely audible tone, two partials, full scale
PollSignals ==
  {Silence,
   [freq |-> Spike(0, 255), time |-> ArrayFill(fftSize, 255)],
   [freq |-> Spike(1, 1), time |-> Alternating(127, 129)],
   [freq |-> Spike2(3, 200, 400, 90), time |-> Alternating(96, 160)],
   [freq |-> ArrayFill(frequencyBinCount, 255), time |-> Alternating(0, 255)]}
PollInputs == {sig.freq : sig \in PollSignals}

\* what the logging timers of the processor read: nothing or something
DiagnosticInputs == {ZeroArray, ArrayFill(frequencyBinCount, 255)}

\* the scene follows one point of the cloud: the first or the last one
ParticleIndices == {0, particleCount - 1}
\* where the point starts: radius = Math.random() * 10, any direction
InitialPositions ==
  {<<0, 0, 0>>, <<3000, 4000, 5000>>, <<-6000, 2000, -7000>>, <<50, 9000, -50>>}
\* values of Math.random(), in thousandths
RandomDraws == {0, 999}
\* positions of the sensitivity slider (min 0.1, max 3, step 0.1), in tenths
SliderValues == {1, 5, 10, 20, 30}
\* values of clock.elapsedTime at a frame, in thousandths of a second
Times == {16, 50, 2033, 3000}
\* the frames the application spec follows
CanvasTimes == {16, 2033}
\* the positions of the slider the application spec follows
CanvasSliderValues == {10, 20}
\* the point the application spec follows
CanvasIndices == {0}
CanvasPositions == {<<3000, 4000, 5000>>}

\* an analyser array whose band i peaks at bands[i]
FromBands(bands) ==
  [b \in 0..(frequencyBinCount - 1) |->
     IF b < startBin \/ b >= bandBoundaries[totalBands] THEN 0
     ELSE bands[CHOOSE i \in 0..(totalBands - 1) :
                  bandBoundaries[i] <= b /\ b < bandBoundaries[i + 1]]]

\* the band arrays the scene is rendered with: silence, one band barely
\* above the snapshot threshold, bass only, treble only, mids only, a
\* balance near the tie of the low and high groups, full scale
SceneBands ==
  {<<0, 0, 0, 0, 0, 0, 0, 0>>, <<2, 0, 0, 0, 0, 0, 0, 0>>,
   <<255, 0, 0, 0, 0, 0, 0, 0>>, <<0, 0, 0, 0, 0, 0, 0, 255>>,
   <<0, 0, 200, 200, 200, 0, 0, 0>>, <<150, 150, 0, 0, 0, 130, 130, 140>>,
   <<100, 100, 60, 60, 60, 100, 100, 100>>,
   <<255, 255, 255, 255, 255, 255, 255, 255>>}
SceneInputs == {FromBands([i \in 0..(totalBands - 1) |-> b[i + 1]]) : b \in SceneBands}

\* every array the analyser delivers in this model, with its bands worked out once
AllFrequencyInputs == FrequencyInputs \cup PollInputs \cup SceneInputs
BandsOfInput == [d \in AllFrequencyInputs |-> bandsOf(d)]

\* the RMS of every buffer, worked out once
RmsOfInput == [td \in TimeDomainInputs |-> rmsOf(td)]

(***************************************************************************)
(* State                                                                   *)
(***************************************************************************)
VARIABLES
  \* AudioProcessor fields (0 and Null stand for null)
  audioContext, analyser, dataArray, microphoneStream, oscillator,
  sourceNode, mediaElementSource, connectedAudioElement,
  \* the platform's audio graph
  analysers,      \* number of AnalyserNodes created so far (ids 1..analysers)
  streams,        \* number of MediaStreams handed out (ids 1..streams)
  liveTracks,     \* streams whose track has not been stopped
  banks,          \* number of oscillator banks created by createTestTone
  oscRunning,     \* <<bank, i>>: oscillator i (0..3 tones, 4 the LFO) is started and not stopped
  oscWired,       \* <<bank, i>>: oscillator i is still connected to its gain
  connections,    \* <<source, analyser id>>: source node connected to the analyser
  toDestination,  \* analysers connected to audioContext.destination
  boundElements,  \* audio elements that own a MediaElementAudioSourceNode
  playing,        \* audio elements that are playing
  diagnostics,    \* live diagnostic intervals of requestMicrophoneAccess
  toneProbes,     \* pending 500 ms probes of createTestTone
  \* the call in flight and the values the last calls returned
  pc, ret, lastCall, frequencyBands, currentRawVolume, rawData,
  timeDomainData, \* the buffer getRawVolume read last (Null: none)
  activeModes,    \* modes acquired since the last cleanup, oldest first
  cleanupRuns,    \* cleanup calls since the last other call (counted up to 2)
  \* SoundVisualizer state
  isListening, audioData, microphoneStatus, audioLevel, rawVolume, debugInfo,
  animationFrameRef, audioElementRef, pollLoops, effectPending, alerts,
  handler,        \* the async start handler in flight and the await it is at
  playResult,     \* how the play() promise of the last start settled
  \* the scene
  sensitivity,    \* the slider's value, in tenths
  elapsedTime,    \* clock.elapsedTime at the last frame, in thousandths of a second
  particles,      \* the followed point of the cloud (Null before the init effect)
  mesh,           \* the centerpiece: transform, material and geometry
  framesSincePoll \* frames rendered since the last poll (counted up to 2)

procVars == <<audioContext, analyser, dataArray, microphoneStream, oscillator,
              sourceNode, mediaElementSource, connectedAudioElement>>
graphVars == <<analysers, streams, liveTracks, banks, oscRunning, oscWired,
               connections, toDestination, boundElements>>
timerVars == <<diagnostics, toneProbes>>
callVars == <<pc, ret, lastCall, activeModes, cleanupRuns>>
getterVars == <<frequencyBands, currentRawVolume, rawData, timeDomainData>>
uiVars == <<isListening, audioData, microphoneStatus, audioLevel, rawVolume,
            debugInfo, animationFrameRef, audioElementRef, pollLoops,
            effectPending, alerts, handler, playResult>>
sceneVars == <<sensitivity, elapsedTime, particles, mesh, framesSincePoll>>
vars == <<procVars, graphVars, playing, timerVars, callVars, getterVars, uiVars,
          sceneVars>>

\* the one HTMLAudioElement the component creates
SampleElement == 1

MicNode(k) == <<"mic", k>>
GainNode(k) == <<"gain", k>>
MediaNode(e) == <<"media", e>>
\* oscillators[0..3] and the LFO of one bank
OscIndices == 0..4

\* a source node delivers sound
NodeLive(n) ==
  \/ n[1] = "mic" /\ n[2] \in liveTracks
  \/ n[1] = "gain" /\ \E i \in 0..3 : <<n[2], i>> \in oscRunning \cap oscWired
  \/ n[1] = "media" /\ n[2] \in playing

\* an analyser without a live input reads silence
Fed(a) == \E c \in connections : c[2] = a /\ NodeLive(c[1])
FrequencyDataOf(a, inputs) == IF Fed(a) THEN inputs ELSE {ZeroArray}
TimeDomainDataOf(a, inputs) == IF Fed(a) THEN inputs ELSE {SilentBuffer}
SignalsOf(a, signals) == IF Fed(a) THEN signals ELSE {Silence}

\* node.disconnect() removes every outgoing connection of the node
Disconnect(conns, n) == {c \in conns : c[1] # n}


(***************************************************************************)
(* AudioProcessor methods                                                  *)
(***************************************************************************)
Acquisitions == {"requestMicrophoneAccess", "createTestTone", "connectAudioElement"}

\* an acquisition method whose catch block rethrows
catchResult_rethrow == "rejected"

\* every acquisition method ends in catch (error) { ...; return false; }
catchResult == "false"

\* a call settles with value v
Return(m, v) ==
  /\ pc' = "idle"
  /\ ret' = v
  /\ lastCall' = m
  /\ activeModes' = IF m \in Acquisitions /\ v = "true"
                      THEN Append(activeModes, m)
                      ELSE IF m = "cleanup" THEN <<>> ELSE activeModes
  /\ cleanupRuns' = IF m = "cleanup" THEN Min2(cleanupRuns + 1, 2) ELSE 0

\* initAudioContext() returning true: a context is created unless one exists
\* (it starts suspended or running), then a new analyser and data array
initContextState(st) == IF audioContext = "null" THEN st ELSE audioContext
\* an initAudioContext that keeps the analyser the processor already holds
initAnalyser_once ==
  /\ analysers' = analysers + 1
  /\ analyser' = IF analyser = 0 THEN analysers + 1 ELSE analyser

initAnalyser ==
  /\ analysers' = analysers + 1
  /\ analyser' = analysers + 1
ContextStates == {"suspended", "running"}

\* initAudioContext() returning false: the AudioContext constructor threw;
\* the method returns false without touching anything
initFails(m) ==
  /\ audioContext = "null"
  /\ Return(m, "false")
  /\ UNCHANGED <<procVars, graphVars, timerVars>>

\* requestMicrophoneAccess up to await getUserMedia
requestMicrophoneAccess ==
  /\ pc = "idle"
  /\ analysers < MaxAnalysers
  /\ \/ initFails("requestMicrophoneAccess")
     \/ \E st \in ContextStates :
          /\ audioContext' = initContextState(st)
          /\ initAnalyser
          /\ dataArray' = ZeroArray
          /\ pc' = "mic_getUserMedia"
          /\ UNCHANGED <<microphoneStream, oscillator, sourceNode, mediaElementSource,
                         connectedAudioElement, streams, liveTracks, banks, oscRunning,
                         oscWired, connections, toDestination, boundElements,
                         timerVars, ret, lastCall, activeModes, cleanupRuns>>

\* lines 155-199: disconnect the previous stream source, connect the new one,
\* start the diagnostic interval, read a first sample; ms is this.microphoneStream
micConnect(ms) ==
  /\ connections' = Disconnect(connections, MicNode(sourceNode)) \cup {<<MicNode(ms), analyser>>}
  /\ sourceNode' = ms
  /\ diagnostics' = diagnostics + 1
  /\ IF dataArray = Null
       THEN \* getByteFrequencyData(null) throws a TypeError
            /\ Return("requestMicrophoneAccess", catchResult)
            /\ UNCHANGED dataArray
       ELSE /\ dataArray' \in DiagnosticInputs
            /\ Return("requestMicrophoneAccess", "true")
  /\ UNCHANGED <<analyser, oscillator, mediaElementSource, connectedAudioElement,
                 analysers, banks, oscRunning, oscWired, toDestination,
                 boundElements, toneProbes>>

\* the getUserMedia promise settles
micGetUserMediaSettles ==
  /\ pc = "mic_getUserMedia"
  /\ \/ \* permission denied or no device: the rejection is caught
        /\ Return("requestMicrophoneAccess", catchResult)
        /\ UNCHANGED <<procVars, graphVars, timerVars>>
     \/ /\ streams' = streams + 1
        /\ liveTracks' = liveTracks \cup {streams + 1}
        /\ microphoneStream' = streams + 1
        /\ UNCHANGED audioContext
        /\ IF audioContext # "running"
             THEN /\ pc' = "mic_resume"
                  /\ UNCHANGED <<analyser, dataArray, oscillator, sourceNode,
                                 mediaElementSource, connectedAudioElement, analysers,
                                 banks, oscRunning, oscWired, connections, toDestination,
                                 boundElements, timerVars, ret, lastCall, activeModes, cleanupRuns>>
             ELSE micConnect(streams + 1)

\* await this.audioContext.resume() inside requestMicrophoneAccess settles
micResumeSettles ==
  /\ pc = "mic_resume"
  /\ \/ /\ Return("requestMicrophoneAccess", catchResult)
        /\ UNCHANGED <<procVars, graphVars, timerVars>>
     \/ /\ audioContext' = "running"
        /\ micConnect(microphoneStream)
        /\ UNCHANGED <<microphoneStream, streams, liveTracks>>

\* lines 359-423: stop the stored oscillator, build a new bank of four tone
\* oscillators and an LFO behind a master gain connected to analyser a
toneConnect(a) ==
  IF oscillator # 0 /\ <<oscillator, 0>> \notin oscRunning
    THEN \* stop() on an oscillator that is already stopped throws
         /\ Return("createTestTone", catchResult)
         /\ UNCHANGED <<microphoneStream, oscillator, sourceNode, mediaElementSource,
                        connectedAudioElement, streams, liveTracks, banks, oscRunning,
                        oscWired, connections, toDestination, boundElements, timerVars>>
    ELSE /\ banks' = banks + 1
         /\ oscRunning' = (oscRunning \ {<<oscillator, 0>>})
                             \cup {<<banks + 1, i>> : i \in OscIndices}
         /\ oscWired' = (oscWired \ {<<oscillator, 0>>})
                           \cup {<<banks + 1, i>> : i \in OscIndices}
         /\ connections' = connections \cup {<<GainNode(banks + 1), a>>}
         \* this.oscillator = oscillators[0]
         /\ oscillator' = banks + 1
         /\ toneProbes' = toneProbes + 1
         /\ Return("createTestTone", "true")
         /\ UNCHANGED <<microphoneStream, sourceNode, mediaElementSource,
                        connectedAudioElement, streams, liveTracks, toDestination,
                        boundElements, diagnostics>>

createTestTone ==
  /\ pc = "idle"
  /\ analysers < MaxAnalysers
  /\ \/ initFails("createTestTone")
     \/ \E st \in ContextStates :
          /\ audioContext' = initContextState(st)
          /\ initAnalyser
          /\ dataArray' = ZeroArray
          /\ IF initContextState(st) # "running"
               THEN /\ pc' = "tone_resume"
                    /\ UNCHANGED <<microphoneStream, oscillator, sourceNode,
                                   mediaElementSource, connectedAudioElement, streams,
                                   liveTracks, banks, oscRunning, oscWired, connections,
                                   toDestination, boundElements, timerVars, ret,
                                   lastCall, activeModes, cleanupRuns>>
               ELSE toneConnect(analysers + 1)

toneResumeSettles ==
  /\ pc = "tone_resume"
  /\ \/ /\ Return("createTestTone", catchResult)
        /\ UNCHANGED <<procVars, graphVars, timerVars>>
     \/ /\ audioContext' = "running"
        /\ toneConnect(analyser)
        /\ UNCHANGED <<analyser, analysers, dataArray>>

\* a reuse branch that returns true without connecting the source again
elementConnect_noReconnect(e, a) ==
  IF connectedAudioElement = e /\ mediaElementSource # 0
    THEN /\ toDestination' = toDestination \cup {a}
         /\ Return("connectAudioElement", "true")
         /\ UNCHANGED <<microphoneStream, oscillator, sourceNode, mediaElementSource,
                        connectedAudioElement, streams, liveTracks, banks, oscRunning,
                        oscWired, connections, boundElements, timerVars>>
    ELSE IF e \in boundElements
      THEN /\ Return("connectAudioElement", catchResult)
           /\ UNCHANGED <<microphoneStream, oscillator, sourceNode, mediaElementSource,
                          connectedAudioElement, streams, liveTracks, banks, oscRunning,
                          oscWired, connections, toDestination, boundElements, timerVars>>
      ELSE /\ boundElements' = boundElements \cup {e}
           /\ mediaElementSource' = e
           /\ connections' = connections \cup {<<MediaNode(e), a>>}
           /\ toDestination' = toDestination \cup {a}
           /\ connectedAudioElement' = e
           /\ Return("connectAudioElement", "true")
           /\ UNCHANGED <<microphoneStream, oscillator, sourceNode, streams, liveTracks,
                          banks, oscRunning, oscWired, timerVars>>

\* lines 450-473: reuse the source node of an element that is already bound,
\* otherwise create one; connect it to analyser a and the analyser to the speakers
elementConnect(e, a) ==
  IF connectedAudioElement = e /\ mediaElementSource # 0
    THEN /\ connections' = connections \cup {<<MediaNode(mediaElementSource), a>>}
         /\ toDestination' = toDestination \cup {a}
         /\ Return("connectAudioElement", "true")
         /\ UNCHANGED <<microphoneStream, oscillator, sourceNode, mediaElementSource,
                        connectedAudioElement, streams, liveTracks, banks, oscRunning,
                        oscWired, boundElements, timerVars>>
    ELSE IF e \in boundElements
      THEN \* createMediaElementSource throws InvalidStateError for a bound element
           /\ Return("connectAudioElement", catchResult)
           /\ UNCHANGED <<microphoneStream, oscillator, sourceNode, mediaElementSource,
                          connectedAudioElement, streams, liveTracks, banks, oscRunning,
                          oscWired, connections, toDestination, boundElements, timerVars>>
      ELSE /\ boundElements' = boundElements \cup {e}
           /\ mediaElementSource' = e
           /\ connections' = connections \cup {<<MediaNode(e), a>>}
           /\ toDestination' = toDestination \cup {a}
           /\ connectedAudioElement' = e
           /\ Return("connectAudioElement", "true")
           /\ UNCHANGED <<microphoneStream, oscillator, sourceNode, streams, liveTracks,
                          banks, oscRunning, oscWired, timerVars>>

connectAudioElement(e) ==
  /\ pc = "idle"
  /\ analysers < MaxAnalysers
  /\ \/ initFails("connectAudioElement")
     \/ \E st \in ContextStates :
          /\ audioContext' = initContextState(st)
          /\ initAnalyser
          /\ dataArray' = ZeroArray
          /\ IF initContextState(st) # "running"
               THEN /\ pc' = "element_resume"
                    /\ UNCHANGED <<microphoneStream, oscillator, sourceNode,
                                   mediaElementSource, connectedAudioElement, streams,
                                   liveTracks, banks, oscRunning, oscWired, connections,
                                   toDestination, boundElements, timerVars, ret,
                                   lastCall, activeModes, cleanupRuns>>
               ELSE elementConnect(e, analysers + 1)

elementResumeSettles ==
  /\ pc = "element_resume"
  /\ \/ /\ Return("connectAudioElement", catchResult)
        /\ UNCHANGED <<procVars, graphVars, timerVars>>
     \/ /\ audioContext' = "running"
        /\ elementConnect(SampleElement, analyser)
        /\ UNCHANGED <<analyser, analysers, dataArray>>

\* cleanup without the null check on the stream
streamGuard_always(ms) == TRUE

\* if (this.microphoneStream): the guard in front of getTracks()
streamGuard(ms) == ms # 0

\* cleanup(); a null dereference outside the inner try blocks would throw
cleanup ==
  IF streamGuard(microphoneStream) /\ microphoneStream = 0
    THEN /\ Return("cleanup", "thrown")
         /\ UNCHANGED <<procVars, graphVars, timerVars>>
    ELSE /\ liveTracks' = liveTracks \ {microphoneStream}
         /\ microphoneStream' = 0
         \* this.oscillator.stop(); this.oscillator.disconnect()
         /\ oscRunning' = oscRunning \ {<<oscillator, 0>>}
         /\ oscWired' = IF <<oscillator, 0>> \in oscRunning
                          THEN oscWired \ {<<oscillator, 0>>}
                          ELSE oscWired
         /\ oscillator' = 0
         \* this.sourceNode.disconnect(); this.mediaElementSource.disconnect()
         /\ connections' = Disconnect(Disconnect(connections, MicNode(sourceNode)),
                                      MediaNode(mediaElementSource))
         /\ sourceNode' = 0
         \* this.analyser.disconnect()
         /\ toDestination' = toDestination \ {analyser}
         /\ dataArray' = Null
         /\ Return("cleanup", "void")
         /\ UNCHANGED <<audioContext, analyser, mediaElementSource, connectedAudioElement,
                        analysers, streams, banks, boundElements, timerVars>>

\* a getFrequencyBands that tests the analyser only
getFrequencyBands_analyserOnly(data) ==
  IF analyser = 0
    THEN /\ frequencyBands' = ArrayFill(totalBands, 0)
         /\ UNCHANGED dataArray
    ELSE /\ dataArray' = data
         /\ frequencyBands' = BandsOfInput[data]

\* getFrequencyBands(): eight zeros without an analyser or data array,
\* otherwise the bands of the data the analyser writes into dataArray
getFrequencyBands(data) ==
  IF dataArray = Null \/ analyser = 0
    THEN /\ frequencyBands' = ArrayFill(totalBands, 0)
         /\ UNCHANGED dataArray
    ELSE /\ dataArray' = data
         /\ frequencyBands' = BandsOfInput[data]

\* getRawVolume(): 0 without an analyser or data array, otherwise the RMS of
\* the buffer the analyser writes
getRawVolume(td) ==
  IF analyser = 0 \/ dataArray = Null
    THEN currentRawVolume' = 0 /\ timeDomainData' = Null
    ELSE timeDomainData' = td /\ currentRawVolume' = RmsOfInput[timeDomainData']

\* getFrequencyData(): the refreshed dataArray, or null
getFrequencyData(data) ==
  IF analyser # 0 /\ dataArray # Null
    THEN /\ dataArray' = data
         /\ rawData' = dataArray'
    ELSE /\ rawData' = Null
         /\ UNCHANGED dataArray

\* the setInterval callback of requestMicrophoneAccess (lines 170-185)
diagnosticTick ==
  /\ diagnostics > 0
  /\ IF analyser # 0 /\ dataArray # Null
       THEN \E data \in FrequencyDataOf(analyser, DiagnosticInputs) :
              /\ dataArray' = data
              \* a signal ends the diagnostic
              /\ diagnostics' = IF reduceSum(data) = 0 THEN diagnostics ELSE diagnostics - 1
       ELSE UNCHANGED <<dataArray, diagnostics>>
  /\ UNCHANGED <<audioContext, analyser, microphoneStream, oscillator, sourceNode,
                 mediaElementSource, connectedAudioElement, graphVars, toneProbes,
                 callVars>>

\* setTimeout(() => clearInterval(diagnosticInterval), 5000)
diagnosticTimeout ==
  /\ diagnostics > 0
  /\ diagnostics' = diagnostics - 1
  /\ UNCHANGED <<procVars, graphVars, toneProbes, callVars>>

\* the 500 ms probe of createTestTone (lines 414-421)
toneProbe ==
  /\ toneProbes > 0
  /\ toneProbes' = toneProbes - 1
  /\ IF analyser # 0 /\ dataArray # Null
       THEN dataArray' \in FrequencyDataOf(analyser, DiagnosticInputs)
       ELSE UNCHANGED dataArray
  /\ UNCHANGED <<audioContext, analyser, microphoneStream, oscillator, sourceNode,
                 mediaElementSource, connectedAudioElement, graphVars, diagnostics,
                 callVars>>

\* the promise of the un-awaited audioContext.resume() of initAudioContext resolves
contextResumes ==
  /\ audioContext = "suspended"
  /\ audioContext' = "running"
  /\ UNCHANGED <<analyser, dataArray, microphoneStream, oscillator, sourceNode,
                 mediaElementSource, connectedAudioElement, graphVars, timerVars,
                 callVars>>


(***************************************************************************)
(* SoundVisualizer: start and stop handlers, the poll loop                 *)
(***************************************************************************)
ZeroBands == ArrayFill(totalBands, 0)

\* the values the getters returned are locals of updateAudioData (and of the
\* caller of the processor): they are gone once another handler runs
forgetLocals ==
  /\ frequencyBands' = Null /\ currentRawVolume' = 0 /\ rawData' = Null
  /\ timeDomainData' = Null

\* a continuation whose failure branches leave the status as it is
startSettled_silentFailure(r, okStatus) ==
  /\ handler' = "idle"
  /\ IF r = "true"
       THEN /\ isListening' = TRUE
            /\ microphoneStatus' = okStatus
            /\ effectPending' = TRUE
            /\ UNCHANGED alerts
       ELSE /\ alerts' = alerts + 1
            /\ UNCHANGED <<microphoneStatus, isListening, effectPending>>
  /\ UNCHANGED <<audioData, audioLevel, rawVolume, debugInfo, animationFrameRef,
                 pollLoops, playing, playResult>>

\* what follows `const success = await audioProcessor.<acquire>()` in
\* startListening (status "active") and startTestTone (status "test"):
\* the success branch, the else branch, or the handler's own catch
startSettled(r, okStatus) ==
  /\ handler' = "idle"
  /\ IF r = "true"
       THEN /\ isListening' = TRUE
            /\ microphoneStatus' = okStatus
            /\ effectPending' = TRUE
            /\ UNCHANGED alerts
       ELSE /\ microphoneStatus' = "error"
            /\ alerts' = alerts + 1
            /\ UNCHANGED <<isListening, effectPending>>
  /\ UNCHANGED <<audioData, audioLevel, rawVolume, debugInfo, animationFrameRef,
                 pollLoops, playing, playResult>>

\* what follows `await audioProcessor.connectAudioElement(...)` in startSampleMusic
sampleConnectSettled(r) ==
  IF r = "true"
    THEN \* await audioElementRef.current.play()
         /\ handler' = "sample_play"
         /\ microphoneStatus' = "requesting"
         /\ UNCHANGED <<isListening, effectPending, alerts, audioData, audioLevel,
                        rawVolume, debugInfo, animationFrameRef, pollLoops, playing,
                        playResult>>
    ELSE startSettled(r, "sample")

settled(h, r) ==
  CASE h = "startListening"   -> startSettled(r, "active") /\ UNCHANGED audioElementRef
    [] h = "startTestTone"    -> startSettled(r, "test") /\ UNCHANGED audioElementRef
    [] h = "startSampleMusic" -> sampleConnectSettled(r) /\ UNCHANGED audioElementRef

\* start buttons without the disabled attribute
startEnabled_always == ~isListening

\* the start buttons are rendered while !isListening and disabled while requesting
startEnabled == ~isListening /\ microphoneStatus # "requesting"

\* a click on a start button: setMicrophoneStatus('requesting'), the processor
\* call up to its first await, and the continuation if the call settled at once
startClick(h, call) ==
  /\ startEnabled
  /\ UNCHANGED sceneVars
  /\ call
  /\ forgetLocals
  /\ IF pc' = "idle"
       THEN /\ alerts' = IF ret' = "true" THEN 0 ELSE 1
            /\ handler' = IF h = "startSampleMusic" /\ ret' = "true"
                            THEN "sample_play" ELSE "idle"
            /\ microphoneStatus' =
                 IF ret' # "true" THEN "error"
                 ELSE IF h = "startListening" THEN "active"
                 ELSE IF h = "startTestTone" THEN "test"
                 ELSE "requesting"
            /\ isListening' = (ret' = "true" /\ h # "startSampleMusic")
            /\ effectPending' = (ret' = "true" /\ h # "startSampleMusic")
       ELSE /\ alerts' = 0
            /\ handler' = h
            /\ microphoneStatus' = "requesting"
            /\ UNCHANGED <<isListening, effectPending>>
  /\ playResult' = "none"
  /\ UNCHANGED <<audioData, audioLevel, rawVolume, debugInfo, animationFrameRef,
                 pollLoops, playing>>

startListening ==
  /\ startClick("startListening", requestMicrophoneAccess)
  /\ UNCHANGED audioElementRef

startTestTone ==
  /\ startClick("startTestTone", createTestTone)
  /\ UNCHANGED audioElementRef

\* the Audio element is created on the first click and kept in audioElementRef
startSampleMusic ==
  /\ audioElementRef' = SampleElement
  /\ startClick("startSampleMusic", connectAudioElement(SampleElement))

\* a pending promise of the processor settles and the handler continues
awaitSettles(step) ==
  /\ handler \in {"startListening", "startTestTone", "startSampleMusic"}
  /\ UNCHANGED sceneVars
  /\ step
  /\ forgetLocals
  /\ IF pc' = "idle"
       THEN settled(handler, ret')
       ELSE UNCHANGED <<uiVars, playing>>

\* await audioElementRef.current.play() settles
playSettles ==
  /\ handler = "sample_play"
  /\ UNCHANGED sceneVars
  /\ handler' = "idle"
  /\ \/ /\ playing' = playing \cup {audioElementRef}
        /\ playResult' = "resolved"
        /\ isListening' = TRUE
        /\ microphoneStatus' = "sample"
        /\ effectPending' = TRUE
        /\ UNCHANGED alerts
     \/ /\ playResult' = "rejected"
        /\ microphoneStatus' = "error"
        /\ alerts' = alerts + 1
        /\ UNCHANGED <<playing, isListening, effectPending>>
  /\ forgetLocals
  /\ UNCHANGED <<procVars, graphVars, timerVars, callVars, audioData,
                 audioLevel, rawVolume, debugInfo, animationFrameRef, audioElementRef,
                 pollLoops>>

\* stopListening without setMicrophoneStatus('initial')
stopResets_keepStatus ==
  /\ isListening' = FALSE
  /\ audioData' = ZeroBands
  /\ audioLevel' = 0
  /\ UNCHANGED <<microphoneStatus, rawVolume>>

\* stopListening without setAudioLevel(0)
stopResets_keepLevel ==
  /\ isListening' = FALSE
  /\ microphoneStatus' = "initial"
  /\ audioData' = ZeroBands
  /\ UNCHANGED <<audioLevel, rawVolume>>

\* the state updates at the end of stopListening (lines 414-417); rawVolume
\* has no setter call there
stopResets ==
  /\ isListening' = FALSE
  /\ microphoneStatus' = "initial"
  /\ audioData' = ZeroBands
  /\ audioLevel' = 0
  /\ UNCHANGED rawVolume

\* stopListening: cancelAnimationFrame is given the id of a setTimeout timer,
\* which it does not clear; the pending poll timers stay
stopListening ==
  /\ isListening
  /\ UNCHANGED sceneVars
  /\ ~effectPending
  /\ playing' = IF audioElementRef # 0 /\ microphoneStatus = "sample"
                  THEN playing \ {audioElementRef}
                  ELSE playing
  /\ cleanup
  /\ IF ret' = "thrown"
       THEN UNCHANGED <<isListening, microphoneStatus, audioData, audioLevel,
                        rawVolume>>
       ELSE stopResets
  /\ animationFrameRef' = FALSE
  /\ forgetLocals
  /\ UNCHANGED <<debugInfo, audioElementRef, pollLoops, effectPending, alerts,
                 handler, playResult>>

RECURSIVE FloorSqrtFrac(_, _, _, _)
\* the largest m in lo..hi with m * m * den <= num
FloorSqrtFrac(num, den, lo, hi) ==
  IF lo = hi THEN lo
  ELSE LET mid == (lo + hi + 1) \div 2
       IN  IF mid * mid * den <= num
             THEN FloorSqrtFrac(num, den, mid, hi)
             ELSE FloorSqrtFrac(num, den, lo, mid - 1)

\* Math.min(1, Math.pow(Math.max(...frequencyBands) / 255, 1/2)), in thousandths
scaledLevel(bands) ==
  Min2(Milli, FloorSqrtFrac(MathMax(bands) * Milli * Milli, 255, 0, 2 * Milli))

\* setDebugInfo({raw: sampleData.slice(0, 20), avg: rawAvg}); avg in thousandths
debugInfoOf(data) ==
  LET sampleData == slice(data, 0, 100)
      nonZero    == {i \in DOMAIN sampleData : sampleData[i] > 0}
      nonZeroSum == reduceSum(sampleData)
  IN  [raw |-> slice(sampleData, 0, 20),
       avg |-> IF Cardinality(nonZero) > 0
                 THEN (nonZeroSum * Milli) \div Cardinality(nonZero)
                 ELSE 0]

DebugInfoOfInput == [d \in AllFrequencyInputs |-> debugInfoOf(d)]

\* a snapshot test that never sees a signal
bandsHaveSignal_never(bands) == FALSE

\* const hasSignal = frequencyBands.some(val => val > 1)
bandsHaveSignal(bands) == \E i \in DOMAIN bands : bands[i] > 1

\* the body of updateAudioData for a closure that captured isListening = true
updateAudioData ==
  \E sig \in SignalsOf(analyser, PollSignals) :
  /\ getFrequencyData(sig.freq)
  /\ getRawVolume(sig.time)
  /\ rawVolume' = currentRawVolume'
  /\ getFrequencyBands(sig.freq)
  /\ debugInfo' = IF rawData' # Null THEN DebugInfoOfInput[rawData'] ELSE debugInfo
  /\ IF bandsHaveSignal(frequencyBands')
       THEN /\ audioLevel' = scaledLevel(frequencyBands')
            /\ audioData' = frequencyBands'
       ELSE /\ audioData' = ZeroBands
            /\ UNCHANGED audioLevel
  \* animationFrameRef.current = setTimeout(updateAudioData, 100)
  /\ animationFrameRef' = TRUE
  /\ framesSincePoll' = 0
  /\ UNCHANGED <<sensitivity, elapsedTime, particles, mesh>>
  /\ UNCHANGED <<audioContext, analyser, microphoneStream, oscillator, sourceNode,
                 mediaElementSource, connectedAudioElement, graphVars, playing,
                 timerVars, callVars, isListening, microphoneStatus, audioElementRef,
                 alerts, handler, playResult>>

\* useEffect on [isListening]: the first poll, which starts a timer loop
listeningEffect ==
  /\ effectPending
  /\ effectPending' = FALSE
  /\ isListening
  /\ updateAudioData
  /\ pollLoops' = pollLoops + 1

\* a pending setTimeout(updateAudioData, 100) fires and re-arms itself
pollTimer ==
  /\ pollLoops > 0
  /\ updateAudioData
  /\ UNCHANGED <<pollLoops, effectPending>>

\* timers and promises of the processor that run beside the component
background(step) ==
  /\ step
  /\ forgetLocals
  /\ UNCHANGED <<playing, uiVars, sceneVars>>

(***************************************************************************)
(* The scene: slider, the cloud's init effect, the frame callbacks         *)
(***************************************************************************)
\* the slider's onChange: setSensitivity(parseFloat(e.target.value)); the
\* slider is rendered while listening
setSensitivity(values) ==
  /\ isListening
  /\ \E v \in values : v # sensitivity /\ sensitivity' = v
  /\ UNCHANGED <<procVars, graphVars, playing, timerVars, callVars, getterVars,
                 uiVars, elapsedTime, particles, mesh, framesSincePoll>>

\* the init effect of CloudParticles (lines 13-44): a random point inside
\* the sphere of radius 10, with a random colour and size
initParticles(indices, positions) ==
  /\ particles = Null
  /\ \E i \in indices, p \in positions, r \in RandomDraws :
       particles' = [index    |-> i,
                     position |-> p,
                     color    |-> <<200 + (r * 300) \div Milli, 100 + (r * 200) \div Milli,
                                    500 + (r * 500) \div Milli>>,
                     size     |-> (r * 200) \div Milli + 50]
  /\ UNCHANGED <<procVars, graphVars, playing, timerVars, callVars, getterVars,
                 uiVars, sensitivity, elapsedTime, mesh, framesSincePoll>>

\* the useFrame callback of CloudParticles: nothing before the init effect
cloudFrame(time) ==
  IF particles = Null
    THEN UNCHANGED particles
    ELSE \E random \in RandomDraws :
           particles' = cloudPoint(particles, audioData, sensitivity, time, random)

\* a frame loop that waits for new band data
frameDue_afterPoll(time) == time > elapsedTime /\ framesSincePoll = 0

\* the frame loop calls the callbacks on every frame; the clock has advanced
frameDue(time) == time > elapsedTime

\* one frame of the canvas: both useFrame callbacks run with the clock's
\* new elapsedTime and the props audioData and sensitivity (lines 682-683)
renderTick(times) ==
  \E time \in times :
    /\ frameDue(time)
    /\ elapsedTime' = time
    /\ cloudFrame(time)
    /\ mesh' = energyFrame(mesh, audioData, sensitivity, time)
    /\ framesSincePoll' = Min2(framesSincePoll + 1, 2)
    /\ UNCHANGED <<procVars, graphVars, playing, timerVars, callVars, getterVars,
                   uiVars, sensitivity>>

(***************************************************************************)
(* The application: the component driving its processor                    *)
(***************************************************************************)
Init ==
  /\ audioContext = "null" /\ analyser = 0 /\ dataArray = Null
  /\ microphoneStream = 0 /\ oscillator = 0 /\ sourceNode = 0
  /\ mediaElementSource = 0 /\ connectedAudioElement = 0
  /\ analysers = 0 /\ streams = 0 /\ liveTracks = {} /\ banks = 0
  /\ oscRunning = {} /\ oscWired = {} /\ connections = {}
  /\ toDestination = {} /\ boundElements = {} /\ playing = {}
  /\ diagnostics = 0 /\ toneProbes = 0
  /\ pc = "idle" /\ ret = "none" /\ lastCall = "none" /\ activeModes = <<>>
  /\ cleanupRuns = 0
  /\ frequencyBands = Null /\ currentRawVolume = 0 /\ rawData = Null
  /\ timeDomainData = Null
  /\ isListening = FALSE /\ audioData = ZeroBands
  /\ microphoneStatus = "initial" /\ audioLevel = 0 /\ rawVolume = 0
  /\ debugInfo = [raw |-> Null, avg |-> 0]
  /\ animationFrameRef = FALSE /\ audioElementRef = 0 /\ pollLoops = 0
  /\ effectPending = FALSE /\ alerts = 0 /\ handler = "idle"
  /\ playResult = "none"
  /\ sensitivity = 10 /\ elapsedTime = 0 /\ particles = Null
  /\ mesh = InitialMesh /\ framesSincePoll = 0

Next ==
  \/ startListening
  \/ startTestTone
  \/ startSampleMusic
  \/ awaitSettles(micGetUserMediaSettles)
  \/ awaitSettles(micResumeSettles)
  \/ awaitSettles(toneResumeSettles)
  \/ awaitSettles(elementResumeSettles)
  \/ playSettles
  \/ stopListening
  \/ listeningEffect
  \/ pollTimer
  \/ background(diagnosticTick)
  \/ background(diagnosticTimeout)
  \/ background(toneProbe)
  \/ background(contextResumes)

Spec == Init /\ [][Next]_vars

\* the platform settles every pending request: the permission prompt, the
\* context resume of each acquisition, and the media element's play()
PlatformSettles ==
  /\ WF_vars(awaitSettles(micGetUserMediaSettles))
  /\ WF_vars(awaitSettles(micResumeSettles))
  /\ WF_vars(awaitSettles(toneResumeSettles))
  /\ WF_vars(awaitSettles(elementResumeSettles))
  /\ WF_vars(playSettles)

SpecLive == Init /\ [][Next]_vars /\ PlatformSettles

(***************************************************************************)
(* The AudioProcessor alone: a caller that awaits every call               *)
(***************************************************************************)
\* an acquisition or cleanup call; the values of earlier getter calls are gone
processorCall(step) ==
  /\ step
  /\ forgetLocals
  /\ UNCHANGED <<playing, uiVars, sceneVars>>

callCleanup == pc = "idle" /\ processorCall(cleanup)

callGetFrequencyBands(inputs) ==
  /\ pc = "idle"
  /\ \E data \in FrequencyDataOf(analyser, inputs) : getFrequencyBands(data)
  /\ cleanupRuns' = 0
  /\ lastCall' = "getFrequencyBands"
  /\ currentRawVolume' = 0 /\ rawData' = Null /\ timeDomainData' = Null
  /\ UNCHANGED <<audioContext, analyser, microphoneStream, oscillator, sourceNode,
                 mediaElementSource, connectedAudioElement, graphVars, playing,
                 timerVars, pc, ret, activeModes, uiVars, sceneVars>>

callGetRawVolume ==
  /\ pc = "idle"
  /\ \E td \in TimeDomainDataOf(analyser, TimeDomainInputs) : getRawVolume(td)
  /\ cleanupRuns' = 0
  /\ lastCall' = "getRawVolume"
  /\ frequencyBands' = Null /\ rawData' = Null
  /\ UNCHANGED <<procVars, graphVars, playing, timerVars, pc, ret, activeModes, uiVars, sceneVars>>

callGetFrequencyData ==
  /\ pc = "idle"
  /\ \E data \in FrequencyDataOf(analyser, PollInputs) : getFrequencyData(data)
  /\ cleanupRuns' = 0
  /\ lastCall' = "getFrequencyData"
  /\ frequencyBands' = Null /\ currentRawVolume' = 0 /\ timeDomainData' = Null
  /\ UNCHANGED <<audioContext, analyser, microphoneStream, oscillator, sourceNode,
                 mediaElementSource, connectedAudioElement, graphVars, playing,
                 timerVars, pc, ret, activeModes, uiVars, sceneVars>>

\* the caller plays or pauses the audio element it passed in
elementPlayPause ==
  /\ pc = "idle"
  /\ SampleElement \in boundElements
  /\ playing' = IF SampleElement \in playing THEN {} ELSE {SampleElement}
  /\ forgetLocals
  /\ UNCHANGED <<procVars, graphVars, timerVars, callVars, uiVars, sceneVars>>

NextProcessor ==
  \/ processorCall(requestMicrophoneAccess)
  \/ processorCall(createTestTone)
  \/ processorCall(connectAudioElement(SampleElement))
  \/ processorCall(micGetUserMediaSettles)
  \/ processorCall(micResumeSettles)
  \/ processorCall(toneResumeSettles)
  \/ processorCall(elementResumeSettles)
  \/ callCleanup
  \/ callGetFrequencyBands(PollInputs)
  \/ callGetRawVolume
  \/ callGetFrequencyData
  \/ elementPlayPause
  \/ background(diagnosticTick)
  \/ background(diagnosticTimeout)
  \/ background(toneProbe)
  \/ background(contextResumes)

SpecProcessor == Init /\ [][NextProcessor]_vars

(***************************************************************************)
(* Sampling: a caller that uses the test tone and reads the bands of every *)
(* array in FrequencyInputs                                                *)
(***************************************************************************)
NextSampling ==
  \/ processorCall(createTestTone)
  \/ processorCall(toneResumeSettles)
  \/ callCleanup
  \/ callGetFrequencyBands(FrequencyInputs)
  \/ background(toneProbe)
  \/ background(contextResumes)

SpecSampling == Init /\ [][NextSampling]_vars

(***************************************************************************)
(* The canvas: the component on the test tone, with its slider and frames  *)
(***************************************************************************)
NextCanvas ==
  \/ startTestTone
  \/ awaitSettles(toneResumeSettles)
  \/ listeningEffect
  \/ pollTimer
  \/ stopListening
  \/ setSensitivity(CanvasSliderValues)
  \/ initParticles(CanvasIndices, CanvasPositions)
  \/ renderTick(CanvasTimes)

SpecCanvas == Init /\ [][NextCanvas]_vars

(***************************************************************************)
(* The scene alone: listening to the test tone, right after the first poll *)
(* read any array of SceneInputs, with the slider at any position          *)
(***************************************************************************)
InitScene ==
  /\ audioContext = "running" /\ analyser = 1
  /\ microphoneStream = 0 /\ oscillator = 1 /\ sourceNode = 0
  /\ mediaElementSource = 0 /\ connectedAudioElement = 0
  /\ analysers = 1 /\ streams = 0 /\ liveTracks = {} /\ banks = 1
  /\ oscRunning = {<<1, i>> : i \in OscIndices}
  /\ oscWired = {<<1, i>> : i \in OscIndices}
  /\ connections = {<<GainNode(1), 1>>}
  /\ toDestination = {} /\ boundElements = {} /\ playing = {}
  /\ diagnostics = 0 /\ toneProbes = 1
  /\ pc = "idle" /\ ret = "true" /\ lastCall = "createTestTone"
  /\ activeModes = <<"createTestTone">> /\ cleanupRuns = 0
  /\ \E data \in SceneInputs :
       /\ dataArray = data /\ rawData = data
       /\ frequencyBands = BandsOfInput[data]
       /\ debugInfo = DebugInfoOfInput[data]
       /\ audioData = IF bandsHaveSignal(BandsOfInput[data])
                        THEN BandsOfInput[data] ELSE ZeroBands
       /\ audioLevel = IF bandsHaveSignal(BandsOfInput[data])
                         THEN scaledLevel(BandsOfInput[data]) ELSE 0
  /\ timeDomainData = Alternating(96, 160)
  /\ currentRawVolume = RmsOfInput[timeDomainData]
  /\ rawVolume = currentRawVolume
  /\ isListening = TRUE /\ microphoneStatus = "test"
  /\ animationFrameRef = TRUE /\ audioElementRef = 0 /\ pollLoops = 1
  /\ effectPending = FALSE /\ alerts = 0 /\ handler = "idle"
  /\ playResult = "none"
  /\ sensitivity \in SliderValues /\ elapsedTime = 0 /\ particles = Null
  /\ mesh = InitialMesh /\ framesSincePoll = 0

NextScene ==
  \/ initParticles(ParticleIndices, InitialPositions)
  \/ renderTick(Times)

SpecScene == InitScene /\ [][NextScene]_vars

(***************************************************************************)
(* Sanity                                                                  *)
(***************************************************************************)
TypeOK ==
  /\ audioContext \in {"null", "suspended", "running"}
  /\ analyser \in 0..analysers /\ analysers \in 0..MaxAnalysers
  /\ dataArray = Null \/ DOMAIN dataArray = 0..(frequencyBinCount - 1)
  /\ microphoneStream \in 0..streams /\ sourceNode \in 0..streams
  /\ oscillator \in 0..banks
  /\ mediaElementSource \in {0, SampleElement}
  /\ connectedAudioElement \in {0, SampleElement}
  /\ pc \in {"idle", "mic_getUserMedia", "mic_resume", "tone_resume", "element_resume"}
  /\ ret \in {"none", "true", "false", "rejected", "void", "thrown"}
  /\ handler \in {"idle", "startListening", "startTestTone", "startSampleMusic",
                  "sample_play"}
  /\ microphoneStatus \in {"initial", "requesting", "active", "test", "sample", "error"}
  /\ isListening \in BOOLEAN /\ effectPending \in BOOLEAN
  /\ audioLevel \in 0..Milli /\ rawVolume \in 0..Milli
  /\ DOMAIN audioData = 0..(totalBands - 1)
  /\ sensitivity \in 1..30 /\ elapsedTime \in {0} \cup Times
  /\ framesSincePoll \in 0..2
  /\ particles = Null \/ particles.index \in 0..(particleCount - 1)

\* the buttons the component renders never start a call while one is pending,
\* and the stored oscillator is always a running one
CallerDiscipline ==
  /\ startEnabled => pc = "idle" /\ handler = "idle"
  /\ isListening => pc = "idle" /\ handler = "idle"
  /\ oscillator # 0 => <<oscillator, 0>> \in oscRunning


(***************************************************************************)
(* Properties                                                              *)
(***************************************************************************)
\* the source node the last successful acquisition connected
CurrentSource ==
  CASE lastCall = "requestMicrophoneAccess" -> MicNode(sourceNode)
    [] lastCall = "createTestTone"          -> GainNode(oscillator)
    [] lastCall = "connectAudioElement"     -> MediaNode(mediaElementSource)

\* an acquisition of a mode just succeeded while another mode was still active
SwitchedWhileActive ==
  /\ pc = "idle"
  /\ lastCall \in Acquisitions
  /\ ret = "true"
  /\ Len(activeModes) >= 2
  /\ activeModes[Len(activeModes)] # activeModes[Len(activeModes) - 1]

\* C1: after an acquisition that switched the mode without a cleanup in
\* between, exactly one source is connected in the audio graph, the new one,
\* and no connection of a previously acquired source remains
C1_OneSourceAfterSwitch ==
  SwitchedWhileActive => connections = {<<CurrentSource, analyser>>}

\* C2: after cleanup() returns every source the processor started is stopped
\* and disconnected: no live microphone track, no running oscillator of a
\* test tone bank (tones and LFO), no source connected to an analyser
C2_CleanupReleasesEverything ==
  (pc = "idle" /\ lastCall = "cleanup") =>
    /\ liveTracks = {}
    /\ oscRunning = {}
    /\ connections = {}

\* C3: a step that connects a new source while a source is active leaves
\* nothing of the previous source behind: its tracks and oscillators are
\* stopped and its connections removed by the time the new connection exists
C3_ReleaseBeforeConnect ==
  [][ (activeModes # <<>> /\ connections' \ connections # {}) =>
        LET new == connections' \ connections
        IN  /\ connections' = new
            /\ liveTracks' \subseteq {c[1][2] : c \in {d \in new : d[1][1] = "mic"}}
            /\ oscRunning' \subseteq
                 {<<c[1][2], i>> : c \in {d \in new : d[1][1] = "gain"}, i \in OscIndices}
    ]_vars

\* C4: cleanup() never raises; on a processor that never acquired anything it
\* changes no field, and a cleanup that directly follows a cleanup changes
\* nothing of the processor or of the audio graph
C4_CleanupIdempotent ==
  [][ callCleanup =>
        /\ ret' = "void"
        /\ analysers = 0 => UNCHANGED <<procVars, graphVars, playing>>
        /\ cleanupRuns >= 1 => UNCHANGED <<procVars, graphVars, playing, timerVars, ret>>
    ]_vars

\* a second cleanup in a row, after a microphone and a test tone were acquired
C4_Witness == cleanupRuns = 2 /\ streams > 0 /\ banks > 0 /\ ret = "void"

\* a call of getFrequencyBands on any array of FrequencyInputs
SampleStep == callGetFrequencyBands(FrequencyInputs)

\* C5: getFrequencyBands returns exactly 8 values, each in 0..255, for every
\* array the analyser holds and also without an analyser or after cleanup
C5_EightBytes ==
  [][ SampleStep =>
        /\ DOMAIN frequencyBands' = 0..7
        /\ \A i \in DOMAIN frequencyBands' : frequencyBands'[i] \in 0..255
    ]_vars

\* bands of a full-scale array were read
C5_Witness ==
  /\ lastCall = "getFrequencyBands"
  /\ dataArray # Null
  /\ frequencyBands # Null
  /\ \A i \in 0..7 : frequencyBands[i] = 255

\* a call that read the analyser (there was an analyser and a data array)
SampledStep == SampleStep /\ dataArray # Null /\ analyser # 0

\* the state right after a call that read the analyser into dataArray
BandsWereSampled ==
  lastCall = "getFrequencyBands" /\ dataArray # Null /\ frequencyBands # Null

\* C6 as stated: the bands are all zero if and only if the sum of the byte
\* array is zero
C6_ZeroIffZeroSum ==
  [][ SampledStep =>
        (frequencyBands' = ZeroBands <=> reduceSum(dataArray') = 0)
    ]_vars

\* C6 amended: the bands are all zero if and only if every bin of the sampled
\* range startBin..endBin-1 is zero; the DC bin and the bins from endBin on
\* do not count
C6_ZeroIffRangeSilent ==
  [][ SampledStep =>
        (frequencyBands' = ZeroBands
           <=> \A b \in startBin..(endBin(dataArray') - 1) : dataArray'[b] = 0)
    ]_vars

\* all-zero bands from an array whose sum is not zero
C6_Witness ==
  /\ BandsWereSampled
  /\ frequencyBands = ZeroBands
  /\ reduceSum(dataArray) > 0

\* the largest byte among bins lo..hi-1
PeakOfBins(data, lo, hi) ==
  CHOOSE v \in {data[b] : b \in lo..(hi - 1)} : \A b \in lo..(hi - 1) : data[b] <= v

\* C7: with a signal, band i is the maximum of the bins
\* boundary_i .. boundary_(i+1) - 1, for each of the 8 bands
C7_BandIsPeak ==
  [][ (SampledStep /\ reduceSum(dataArray') > 0) =>
        \A i \in 0..7 :
          frequencyBands'[i] =
            PeakOfBins(dataArray', bandBoundaries[i], bandBoundaries[i + 1])
    ]_vars

\* a band holding two different non-zero bins reports the larger one
C7_Witness ==
  /\ BandsWereSampled
  /\ \E i \in 0..7 :
       /\ frequencyBands[i] = 200
       /\ \E b \in bandBoundaries[i]..(bandBoundaries[i + 1] - 1) : dataArray[b] = 40

\* a start handler has finished and the start failed: the processor reported
\* failure or play() was rejected
StartFailed ==
  /\ handler = "idle"
  /\ pc = "idle"
  /\ \/ lastCall \in Acquisitions /\ ret # "true"
     \/ playResult = "rejected"

\* C8: an acquisition settles with true or false, never with an exception, and
\* every failed start ends in status 'error', not listening, with one alert
C8_FailureIsBooleanAndAlerted ==
  /\ (pc = "idle" /\ lastCall \in Acquisitions) => ret \in {"true", "false"}
  /\ StartFailed =>
       /\ microphoneStatus = "error"
       /\ ~isListening
       /\ alerts = 1

\* the microphone permission was denied
C8_Witness ==
  /\ StartFailed
  /\ lastCall = "requestMicrophoneAccess"
  /\ ret = "false"
  /\ streams = 0
  /\ analysers > 0

\* stopListening ran and no start was clicked since
Stopped == lastCall = "cleanup" /\ handler = "idle"

\* C9: from stopListening until the next start the snapshot is eight zeros,
\* the audio level 0, isListening false and the status 'initial'
C9_StoppedIsIdle ==
  Stopped =>
    /\ audioData = ZeroBands
    /\ audioLevel = 0
    /\ ~isListening
    /\ microphoneStatus = "initial"

\* a poll timer that survived the stop has run after it
C9_Witness ==
  /\ Stopped
  /\ pollLoops > 0
  /\ frequencyBands = ZeroBands
  /\ liveTracks # {} \/ oscRunning # {} \/ boundElements # {}

\* C10: in the state stopListening produces, rawVolume is 0
C10_StopResetsRawVolume == Stopped => rawVolume = 0

\* the statuses in which a source is being listened to
ListeningStatuses == {"active", "test", "sample"}

\* C11: the status is one of the six modes, and isListening is true exactly
\* in 'active', 'test' and 'sample': it is false in 'initial', 'requesting'
\* and 'error'
C11_ListeningIffActiveStatus ==
  /\ microphoneStatus \in
       {"initial", "requesting", "active", "test", "sample", "error"}
  /\ isListening <=> microphoneStatus \in ListeningStatuses

\* sample music plays after an earlier start had failed
C11_Witness ==
  /\ isListening
  /\ microphoneStatus = "sample"
  /\ playResult = "resolved"
  /\ analysers >= 2

\* one run of updateAudioData: the first poll of the effect or a timer poll
PollStep == listeningEffect \/ pollTimer

\* C12 as stated: every poll while listening leaves in the snapshot the bands
\* getFrequencyBands returned in that poll
C12_SnapshotIsSampledBands ==
  [][ (PollStep /\ isListening) => audioData' = frequencyBands' ]_vars

\* C12 amended: a poll leaves in the snapshot the sampled bands when one of
\* them exceeds 1, and eight zeros when none does
C12_SnapshotIsThresholdedBands ==
  [][ PollStep =>
        audioData' = IF \E i \in 0..7 : frequencyBands'[i] > 1
                       THEN frequencyBands'
                       ELSE ZeroBands
    ]_vars

\* a poll sampled bands that are not all zero and the snapshot holds zeros
C12_Witness ==
  /\ isListening
  /\ frequencyBands # Null
  /\ frequencyBands # ZeroBands
  /\ audioData = ZeroBands

\* a call of getRawVolume by a caller of the processor
VolumeStep == callGetRawVolume

\* C19: getRawVolume returns a value in [0, 1] for every time-domain buffer,
\* and 0 for the silent buffer whose bytes are all 128
C19_RawVolumeInUnitRange ==
  [][ VolumeStep =>
        /\ currentRawVolume' \in 0..Milli
        /\ timeDomainData' = SilentBuffer => currentRawVolume' = 0
    ]_vars

\* a live source delivered the silent buffer and getRawVolume returned 0
C19_Witness ==
  /\ lastCall = "getRawVolume"
  /\ Fed(analyser)
  /\ timeDomainData = SilentBuffer
  /\ currentRawVolume = 0

\* a frame of the canvas in the application
FrameStep == renderTick(CanvasTimes)

\* the last frame the application spec follows
LastCanvasTime == CHOOSE t \in CanvasTimes : \A u \in CanvasTimes : u <= t

\* C13: a render tick leaves audioData, sensitivity, microphoneStatus,
\* isListening and the AudioProcessor with its audio graph unchanged, and a
\* frame is due in every state in which the clock has a later frame time,
\* whether or not a poll ran since the last frame
C13_RenderTickReadsOnly ==
  /\ [][ FrameStep =>
           UNCHANGED <<audioData, sensitivity, microphoneStatus, isListening,
                       procVars, graphVars, playing, timerVars>> ]_vars
  /\ [](elapsedTime < LastCanvasTime => \E time \in CanvasTimes : frameDue(time))

\* two frames in a row while listening, with no poll between them
C13_Witness ==
  /\ framesSincePoll = 2
  /\ isListening
  /\ pollLoops > 0
  /\ particles # Null
  /\ audioData # ZeroBands

\* C14: the result of a frame is a function of the point, the band array,
\* the elapsed time and the sensitivity: whatever Math.random() returns, the
\* point gets the same position, colour and size
C14_FrameIsDeterministic ==
  particles # Null =>
    \A time \in Times, r1 \in RandomDraws, r2 \in RandomDraws :
      cloudPoint(particles, audioData, sensitivity, time, r1)
        = cloudPoint(particles, audioData, sensitivity, time, r2)

\* a frame of the scene
SceneStep == renderTick(Times)

\* C15: after every frame the point's radius is at most 20; a point that
\* the frame's displacement took beyond 20 is at radius 10 (up to the
\* rounding of the coordinates) on the ray of its displaced position, and a
\* point within 20 stays where the displacement put it
C15_RadiusBounded ==
  [][ (SceneStep /\ particles # Null) =>
        LET m == moved(particles, audioData, sensitivity, elapsedTime')
            p == particles'.position
        IN  /\ Norm(p) <= 20000
            /\ Norm(m) > 20000 =>
                 /\ Norm(p) \in 9998..10002
                 /\ \A k \in 1..3 :
                      /\ p[k] * m[k] >= 0
                      /\ p[k] * Norm(m) - m[k] * 10000 \in (0 - Norm(m))..Norm(m)
            /\ Norm(m) <= 20000 => p = m
    ]_vars

\* a point was carried beyond radius 20 by full-scale bands at sensitivity 3
\* and was put back at radius 10
C15_Witness ==
  /\ particles # Null
  /\ sensitivity = 30
  /\ audioData = [i \in 0..7 |-> 255]
  /\ elapsedTime = 50
  /\ Norm(particles.position) \in 9998..10002

\* the position of a point after an idle frame: breathing and noise along
\* the point's own direction, then the base rotation
IdlePosition(point, time) ==
  LET p == point.position
      movement == baseMovementFactor(time) + noise(time, point.index, p[1], p[2])
      step == Scaled(Scaled(Normalize(p), movement, Milli), 50, Milli)
  IN  bounded(rotated(<<p[1] + step[1], p[2] + step[2], p[3] + step[3]>>, 50))

\* the mesh after an idle frame: breathing scale and glow, the base colour
\* at this time, the base rotation, and the geometry it had
IdleMesh(m, time) ==
  LET last == <<(m.lastRotation[1] * 95) \div 100 - 50,
                (m.lastRotation[2] * 95) \div 100 - 50,
                (m.lastRotation[3] * 95) \div 100 - 1000>>
      c == <<300 + (100 * MathSin((time * 300) \div Milli)) \div Milli,
             100,
             600 + (100 * MathCos((time * 300) \div Milli)) \div Milli>>
  IN  [scale             |-> Milli + breathingEffect(time),
       lastRotation      |-> last,
       rotation          |-> <<m.rotation[1] + last[1], m.rotation[2] + last[2],
                               m.rotation[3] + last[3]>>,
       emissiveIntensity |-> 200 + breathingEffect(time),
       color             |-> c,
       emissive          |-> <<c[1] \div 2, c[2] \div 2, c[3] \div 2>>,
       geometry          |-> m.geometry]

\* C16: a poll that samples all-zero bands changes neither the status nor
\* isListening (no error, no stop), and a frame on an all-zero snapshot
\* applies the idle terms only: no audio factor, no bias, no swirl, the base
\* colour, and the geometry it had
C16_SilenceIsNormal ==
  /\ [][ (PollStep /\ frequencyBands' = ZeroBands) =>
           /\ UNCHANGED <<microphoneStatus, isListening>>
           /\ audioData' = ZeroBands
       ]_vars
  /\ [][ (FrameStep /\ audioData = ZeroBands) =>
           /\ verticalBias(audioData, sensitivity) = 0
           /\ radialBias(audioData, sensitivity) = 0
           /\ mesh' = IdleMesh(mesh, elapsedTime')
           /\ particles # Null =>
                /\ particles'.position = IdlePosition(particles, elapsedTime')
                /\ particles'.color = <<200, 100, 500>>
                /\ ~swirls(particles.position,
                           audioIntensity(audioData, sensitivity,
                                          bandIndex(audioData, Norm(particles.position))))
       ]_vars

\* listening to a source that is silent: the poll sampled zeros, and a frame
\* at a time inside the geometry's time gate rendered them
C16_Witness ==
  /\ isListening
  /\ microphoneStatus = "test"
  /\ Fed(analyser)
  /\ frequencyBands = ZeroBands
  /\ audioData = ZeroBands
  /\ framesSincePoll >= 1
  /\ elapsedTime % 2000 < 100
  /\ particles # Null
  /\ sensitivity = 20

\* C17: verticalBias > 0 whenever the mean of bands 0-1 exceeds the mean of
\* bands 5-7, and radialBias > 0 whenever the mean of bands 5-7 exceeds the
\* mean of bands 0-1 (the means compared as 3 * low sum and 2 * high sum)
C17_BiasFollowsDominantGroup ==
  [][ SceneStep =>
        LET lowSum  == audioData[0] + audioData[1]
            highSum == audioData[5] + audioData[6] + audioData[7]
        IN  /\ 3 * lowSum > 2 * highSum => verticalBias(audioData, sensitivity) > 0
            /\ 2 * highSum > 3 * lowSum => radialBias(audioData, sensitivity) > 0
    ]_vars

\* frames ran on bands whose low group has the larger mean and the smaller sum
C17_Witness ==
  /\ elapsedTime > 0
  /\ particles # Null
  /\ audioData[0] + audioData[1] < audioData[5] + audioData[6] + audioData[7]
  /\ verticalBias(audioData, sensitivity) > 0

\* C18: doubling the sensitivity doubles the low, mid and high group
\* intensity, the mean intensity and the intensity of every band; none of
\* them is clamped
C18_SensitivityIsLinear ==
  [][ (SceneStep /\ 2 * sensitivity <= 30) =>
        /\ lowFreqIntensity(audioData, 2 * sensitivity)
             = 2 * lowFreqIntensity(audioData, sensitivity)
        /\ midFreqIntensity(audioData, 2 * sensitivity)
             = 2 * midFreqIntensity(audioData, sensitivity)
        /\ highFreqIntensity(audioData, 2 * sensitivity)
             = 2 * highFreqIntensity(audioData, sensitivity)
        /\ avgIntensity(audioData, 2 * sensitivity)
             = 2 * avgIntensity(audioData, sensitivity)
        /\ \A i \in 0..7 :
             audioIntensity(audioData, 2 * sensitivity, i)
               = 2 * audioIntensity(audioData, sensitivity, i)
    ]_vars

\* a frame on full-scale bands at sensitivity 1: the doubled intensity is 2
C18_Witness ==
  /\ elapsedTime > 0
  /\ sensitivity = 10
  /\ audioData = [i \in 0..7 |-> 255]
  /\ lowFreqIntensity(audioData, sensitivity) = IntensityUnit
  /\ lowFreqIntensity(audioData, 2 * sensitivity) = 2 * IntensityUnit

\* C20: a frame creates a new geometry only if the mean intensity exceeds
\* 0.2 (sensitivity * sum of bands > 0.2 * 10 * 8 * 255) and the elapsed time
\* modulo 2 s is below 0.1 s; every other frame leaves the geometry as it was
C20_GeometryGate ==
  [][ SceneStep =>
        LET loud  == sensitivity * reduceSum(audioData) > 4080
            gated == elapsedTime' % 2000 < 100
        IN  /\ mesh'.geometry # mesh.geometry => loud /\ gated
            /\ ~(loud /\ gated) => mesh'.geometry = mesh.geometry
    ]_vars

\* a geometry was created and a later loud frame outside the gate kept it
C20_Witness ==
  /\ mesh.geometry.id = 1
  /\ elapsedTime = 3000
  /\ sensitivity * reduceSum(audioData) > 4080

\* the bins of an array that are not zero
NonZeroBins(data) == {b \in DOMAIN data : data[b] # 0}

\* the bands whose bin range boundary_i .. boundary_(i+1) - 1 holds bin b
BandsHolding(bd, b) == {i \in 0..(totalBands - 1) : bd[i] <= b /\ b < bd[i + 1]}

\* C21: on every call that reads the analyser the 9 boundaries computed for
\* startBin = 1 and endBin = min(800, array length) are the same table; they
\* rise strictly from startBin to endBin, every bin of startBin..endBin-1 is
\* in exactly one band, bin 0 and the bins from endBin on are in none, and a
\* single non-zero bin shows in exactly the bands that hold it
C21_BoundariesPartitionRange ==
  BandsWereSampled =>
    LET bd == logSpace(startBin, endBin(dataArray), totalBands + 1)
        nz == NonZeroBins(dataArray)
    IN  /\ bd = bandBoundaries
        /\ endBin(dataArray) = 800
        /\ bd[0] = startBin /\ bd[totalBands] = endBin(dataArray)
        /\ \A i \in 0..(totalBands - 1) : bd[i] < bd[i + 1]
        /\ \A b \in DOMAIN dataArray :
             Cardinality(BandsHolding(bd, b))
               = IF startBin <= b /\ b < endBin(dataArray) THEN 1 ELSE 0
        /\ Cardinality(nz) = 1 =>
             \A b \in nz, i \in 0..(totalBands - 1) :
               frequencyBands[i] # 0 <=> i \in BandsHolding(bd, b)

\* the last bin below endBin alone is non-zero and shows in the last band only
C21_Witness ==
  /\ BandsWereSampled
  /\ NonZeroBins(dataArray) = {endBinLimit - 1}
  /\ frequencyBands[totalBands - 1] = 255
  /\ \A i \in 0..(totalBands - 2) : frequencyBands[i] = 0

\* C22: once stopListening has run the start buttons can be used again, and
\* every poll while listening, after a restart as after the first start,
\* reads a non-null data array of the processor's current analyser, to which
\* the source of the last acquisition is connected and delivers sound; the
\* bands are those of the array read, not the zeros of the torn-down state
C22_RestartDeliversLiveData ==
  /\ [](Stopped => startEnabled)
  /\ [][ (PollStep /\ isListening) =>
           /\ analyser # 0
           /\ dataArray' # Null
           /\ rawData' = dataArray'
           /\ frequencyBands' = BandsOfInput[dataArray']
           /\ <<CurrentSource, analyser>> \in connections
           /\ NodeLive(CurrentSource)
       ]_vars

\* the test tone was started and stopped, then sample music was started and
\* a poll read bands that are not all zero from the second analyser
C22_Witness ==
  /\ isListening
  /\ microphoneStatus = "sample"
  /\ banks = 1 /\ oscillator = 0
  /\ analyser = 2
  /\ frequencyBands # Null
  /\ frequencyBands # ZeroBands
  /\ audioData = frequencyBands

\* C23: at most one poll timer is pending at any time, also over repeated
\* start/stop cycles, and a poll executes only while listening: none between
\* stopListening and the next successful start
C23_OnePollTimer ==
  /\ [](pollLoops <= 1)
  /\ [][ PollStep => isListening ]_vars

\* a click the panel offers: one of the three start buttons or the stop button
UiClick == startListening \/ startTestTone \/ startSampleMusic \/ stopListening

\* the statuses a start handler may set when it finishes
CompletionStatuses(h) ==
  CASE h = "startListening"   -> {"active", "error"}
    [] h = "startTestTone"    -> {"test", "error"}
    [] h = "startSampleMusic" -> {"error"}
    [] h = "sample_play"      -> {"sample", "error"}

\* C24: the status is 'requesting' exactly while a start handler is pending;
\* in that status no start button is enabled and the stop button is not
\* rendered, so no click starts or stops anything while an acquisition is in
\* flight; a handler that finishes finds the status 'requesting' it set
\* itself and replaces it by the outcome of its own start
C24_OneAcquisitionInFlight ==
  /\ [](/\ microphoneStatus = "requesting" <=> handler # "idle"
        /\ pc # "idle" => handler # "idle"
        /\ microphoneStatus = "requesting" => ~startEnabled /\ ~isListening
        /\ startEnabled => pc = "idle" /\ handler = "idle")
  /\ [][ UiClick => microphoneStatus # "requesting" /\ handler = "idle" ]_vars
  /\ [][ (handler # "idle" /\ handler' = "idle") =>
           /\ microphoneStatus = "requesting"
           /\ microphoneStatus' \in CompletionStatuses(handler)
       ]_vars

\* after a test tone cycle, sample music was connected and its play() is
\* pending: the status is 'requesting' and no button can be clicked
C24_Witness ==
  /\ microphoneStatus = "requesting"
  /\ handler = "sample_play"
  /\ pc = "idle"
  /\ banks = 1 /\ oscillator = 0
  /\ ~startEnabled /\ ~isListening

\* the statuses a start ends in
FinalStatuses == {"active", "test", "sample", "error"}

\* C25: if the platform settles every pending request, a start that has set
\* the status to 'requesting' eventually reaches 'active', 'test', 'sample'
\* or 'error', and no start handler has finished while the status is still
\* 'requesting'
C25_StartLeavesRequesting ==
  /\ (microphoneStatus = "requesting") ~> (microphoneStatus \in FinalStatuses)
  /\ [](handler = "idle" => microphoneStatus # "requesting")

\* the element was connected after a context resume and play() was then
\* rejected: the start went through two awaits and ended in 'error'
C25_Witness ==
  /\ handler = "idle"
  /\ microphoneStatus = "error"
  /\ playResult = "rejected"
  /\ audioContext = "running"
  /\ SampleElement \in boundElements

\* a getter call by a caller of the processor
GetterStep == callGetFrequencyBands(PollInputs) \/ callGetRawVolume \/ callGetFrequencyData

\* C26: the processor has no data array before the first acquisition and
\* after every cleanup(), only an acquisition call gives it one again, and
\* without a data array the getters do not read the analyser:
\* getFrequencyBands returns eight zeros, getRawVolume 0 and
\* getFrequencyData null
C26_SamplingInertWithoutData ==
  /\ [](analysers = 0 => dataArray = Null)
  /\ [][ callCleanup => dataArray' = Null ]_vars
  /\ [][ (dataArray = Null /\ dataArray' # Null) => analysers' = analysers + 1 ]_vars
  /\ [][ (GetterStep /\ dataArray = Null) =>
           /\ dataArray' = Null
           /\ timeDomainData' = Null
           /\ lastCall' = "getFrequencyBands" => frequencyBands' = ZeroBands
           /\ lastCall' = "getRawVolume" => currentRawVolume' = 0
           /\ lastCall' = "getFrequencyData" => rawData' = Null
       ]_vars

\* after a cleanup the analyser still has a sounding input, and
\* getFrequencyBands returned eight zeros without reading it
C26_Witness ==
  /\ lastCall = "getFrequencyBands"
  /\ activeModes = <<>>
  /\ analyser # 0
  /\ Fed(analyser)
  /\ dataArray = Null
  /\ frequencyBands = ZeroBands

\* C27: when a start has failed and the status is 'error', no source is
\* connected to an analyser, no analyser is connected to the speakers, and no
\* microphone track, oscillator or media element is running
C27_FailedStartLeavesCleanGraph ==
  (StartFailed /\ microphoneStatus = "error") =>
    /\ connections = {}
    /\ toDestination = {}
    /\ liveTracks = {}
    /\ oscRunning = {}
    /\ playing = {}

\* the last call was an acquisition and it returned true
Acquired == pc = "idle" /\ lastCall \in Acquisitions /\ ret = "true"

\* C28: after every successful acquisition, whatever was acquired or cleaned
\* up before, the source it connected is connected to the analyser the
\* processor holds, which is the one the getters read, and the data array is
\* non-null with one entry per frequency bin of that analyser
C28_SourceFeedsReadAnalyser ==
  Acquired =>
    /\ analyser # 0
    /\ <<CurrentSource, analyser>> \in connections
    /\ dataArray # Null
    /\ Length(dataArray) = frequencyBinCount

\* the media element was connected twice: the second acquisition re-used the
\* element's source node and connected it to the new analyser
C28_Witness ==
  /\ Acquired
  /\ lastCall = "connectAudioElement"
  /\ analyser = 2
  /\ <<MediaNode(SampleElement), 1>> \in connections
  /\ <<MediaNode(SampleElement), 2>> \in connections

=============================================================================
